---- MODULE Spec2Model ----
(***************************************************************************)
(* A model of PBACCore (src/src/core/pbac.ts): the permission set, the     *)
(* condition map ("rules"), the user context and the role stores of one    *)
(* engine instance, its mutators and its queries hasPermission, can,       *)
(* canAll, canAny and hasRolePermission.                                   *)
(*                                                                         *)
(* Every public method is one action.  The variable ret records the last   *)
(* call: its name, its arguments, what it returned or threw and, for the   *)
(* queries, the condition functions it invoked, in order, each with the    *)
(* context it was invoked on.                                              *)
(***************************************************************************)
EXTENDS Integers, Sequences, FiniteSets, TLC

VARIABLES
    permissions,      \* private permissions: PermissionSet
    rules,            \* private rules: Map<Permission, ConditionFunction<T>>
    user,             \* private user?: T
    roles,            \* private roles: Set<string>
    rolePermissions,  \* private rolePermissions: Map<string, PermissionSet>
    ret,              \* the last call and its outcome
    revoked           \* history: the permissions passed to removePermissions
                      \* with no successful setCondition on them since

vars == <<permissions, rules, user, roles, rolePermissions, ret, revoked>>

store == <<permissions, rules, user, roles, rolePermissions>>

-----------------------------------------------------------------------------
(* Inputs *)

\* Longest permission list passed to a method.
MaxLen == 2

\* The permission strings the calls are made with; "*" is the wildcard.
Perms == {"*", "a", "b"}

\* Permission[] arguments: the sequences over Perms of length 0..MaxLen that
\* name no permission twice.
Lists ==
    {s \in UNION {[1..n -> Perms] : n \in 0..MaxLen} :
        \A i, j \in 1..Len(s) : s[i] = s[j] => i = j}

Range(s) == {s[i] : i \in 1..Len(s)}

\* An optional value: undefined, or a value that is present.
Undefined == [defined |-> FALSE]

Some(v) == [defined |-> TRUE, value |-> v]

\* A context object is a function from the keys it has to their values.
EmptyCtx == [k \in {} |-> 0]

\* The user contexts given to the constructor and to setUser.
Users == {[id |-> 1, verified |-> FALSE], [id |-> 2, verified |-> TRUE]}

\* The optional context?: Partial<T> argument of can, canAll and canAny.
Overrides == {Undefined, Some([verified |-> TRUE])}

\* The role names and the role-to-permissions map of the configuration.
ConfigRoles == {"admin", "guest"}

ConfigRolePermissions == [admin |-> {"*"}, guest |-> {"a"}]

\* The role names the role methods are called with.
RoleNames == {"admin", "guest"}

\* The permission sets a role-to-permissions map may give a role.
RolePermissionSets == {{}, {"a"}, {"*"}, {"a", "b"}}

\* Map<string, PermissionSet> arguments: any of the role names as keys.
RoleMaps == UNION {[keys -> RolePermissionSets] : keys \in SUBSET RoleNames}

-----------------------------------------------------------------------------
(* Condition functions: (context: T) => boolean, which may throw *)

Conditions == {"isVerified", "requireOwner"}

Return(b) == [kind |-> "return", value |-> b]

Throw(e) == [kind |-> "throw", error |-> e]

\* isVerified:   (ctx) => ctx.verified === true
\* requireOwner: (ctx) => { if (ctx.id === undefined) throw new Error("no id");
\*                          return ctx.id === 1; }
\* A thrown Error e is recorded as the string `${e}`.
Call(condition, ctx) ==
    IF condition = "isVerified"
    THEN Return("verified" \in DOMAIN ctx /\ ctx["verified"] = TRUE)
    ELSE IF "id" \notin DOMAIN ctx
         THEN Throw("Error: no id")
         ELSE Return(ctx["id"] = 1)

-----------------------------------------------------------------------------
(* Helpers of the queries *)

\* { ...x }: the own keys of x, none when x is undefined.
Spread(x) == IF x.defined THEN x.value ELSE EmptyCtx

\* The spreads in the wrong order: { ...context, ...this.user }.
evaluationContext_UserWins(context) ==
    LET u == Spread(user)
        c == Spread(context)
    IN  [k \in DOMAIN u \cup DOMAIN c |-> IF k \in DOMAIN u THEN u[k] ELSE c[k]]

\* { ...this.user, ...context }: the later spread wins on a shared key.
evaluationContext(context) ==
    LET u == Spread(user)
        c == Spread(context)
    IN  [k \in DOMAIN u \cup DOMAIN c |-> IF k \in DOMAIN c THEN c[k] ELSE u[k]]

\* A hand-written join that puts the separator after every element.
RECURSIVE join_Trailing(_, _)
join_Trailing(strings, sep) ==
    IF Len(strings) = 0 THEN ""
    ELSE strings[1] \o sep \o join_Trailing(Tail(strings), sep)

\* Array.prototype.join
RECURSIVE join(_, _)
join(strings, sep) ==
    IF Len(strings) = 0 THEN ""
    ELSE IF Len(strings) = 1 THEN strings[1]
    ELSE strings[1] \o sep \o join(Tail(strings), sep)

Allowed == [allowed |-> TRUE]

Denied(reason) == [allowed |-> FALSE, reason |-> reason]

hasWildcardRole(perms) == "*" \in perms

\* hasPermission without the wildcard short-circuit.
hasPermission_LiteralOnly(permission) == permission \in permissions

\* hasPermission that grants everything.
hasPermission_Always(permission) == TRUE

hasPermission(permission) ==
    IF hasWildcardRole(permissions) THEN TRUE ELSE permission \in permissions

\* The outcome of one query: the PermissionCheckResult and the conditions
\* invoked on the way.
Outcome(result, invoked) == [result |-> result, invoked |-> invoked]

\* One invocation: the permission being checked, the key of the rules map
\* whose condition ran, and the context it was given.
Invocation(permission, key, ctx) ==
    [permission |-> permission, key |-> key, context |-> ctx]

notGranted(permission) ==
    Outcome(Denied("Permission '" \o permission \o "' not granted"), <<>>)

\* can, lines 229-258: the permission is covered by "*" only.
wildcardBranch(permission, context) ==
    IF "*" \notin DOMAIN rules
    THEN Outcome(Allowed, <<>>)
    ELSE LET ctx == evaluationContext(context)
             r == Call(rules["*"], ctx)
             invoked == <<Invocation(permission, "*", ctx)>>
         IN  IF r.kind = "throw"
             THEN Outcome(Denied("Error evaluating wildcard condition: "
                                 \o r.error), invoked)
             ELSE IF ~r.value
             THEN Outcome(Denied("Wildcard condition failed for permission '"
                                 \o permission \o "'"), invoked)
             ELSE Outcome(Allowed, invoked)

\* The explicit path with an empty catch block: a throw falls through to
\* { allowed: true }.
explicitBranch_EmptyCatch(permission, context) ==
    IF permission \notin DOMAIN rules
    THEN Outcome(Allowed, <<>>)
    ELSE LET ctx == evaluationContext(context)
             r == Call(rules[permission], ctx)
             invoked == <<Invocation(permission, permission, ctx)>>
         IN  IF r.kind = "return" /\ ~r.value
             THEN Outcome(Denied("Condition failed for permission '"
                                 \o permission \o "'"), invoked)
             ELSE Outcome(Allowed, invoked)

\* can, lines 260-287: the permission is a literal member.
explicitBranch(permission, context) ==
    IF permission \notin DOMAIN rules
    THEN Outcome(Allowed, <<>>)
    ELSE LET ctx == evaluationContext(context)
             r == Call(rules[permission], ctx)
             invoked == <<Invocation(permission, permission, ctx)>>
         IN  IF r.kind = "throw"
             THEN Outcome(Denied("Error evaluating condition for permission '"
                                 \o permission \o "': " \o r.error), invoked)
             ELSE IF ~r.value
             THEN Outcome(Denied("Condition failed for permission '"
                                 \o permission \o "'"), invoked)
             ELSE Outcome(Allowed, invoked)

\* can whose wildcard branch is taken whenever "*" is held, also for a
\* permission that is a literal member.
can_WildcardFirst(permission, context) ==
    LET hasWildcard == "*" \in permissions
    IN  IF ~hasPermission(permission)
        THEN notGranted(permission)
        ELSE IF hasWildcard
        THEN wildcardBranch(permission, context)
        ELSE explicitBranch(permission, context)

\* can without the wildcard branch: the condition under the permission's own
\* key decides, also when only "*" grants it.
can_NoWildcardBranch(permission, context) ==
    IF ~hasPermission(permission)
    THEN notGranted(permission)
    ELSE explicitBranch(permission, context)

can(permission, context) ==
    LET hasWildcard == "*" \in permissions
    IN  IF ~hasPermission(permission)
        THEN notGranted(permission)
        ELSE IF hasWildcard /\ permission \notin permissions
        THEN wildcardBranch(permission, context)
        ELSE explicitBranch(permission, context)

\* The loop of canAll without the early return: every entry is evaluated and
\* the first denial is returned at the end.
RECURSIVE canAllFrom_EvaluatesAll(_, _, _, _)
canAllFrom_EvaluatesAll(list, i, context, invoked) ==
    IF i > Len(list)
    THEN Outcome(Allowed, invoked)
    ELSE LET o == can(list[i], context)
             rest == canAllFrom_EvaluatesAll(list, i + 1, context,
                                             invoked \o o.invoked)
         IN  IF ~o.result.allowed
             THEN Outcome(o.result, rest.invoked)
             ELSE rest

\* The for loop of canAll from index i on; invoked is what ran before.
RECURSIVE canAllFrom(_, _, _, _)
canAllFrom(list, i, context, invoked) ==
    IF i > Len(list)
    THEN Outcome(Allowed, invoked)
    ELSE LET o == can(list[i], context)
         IN  IF ~o.result.allowed
             THEN Outcome(o.result, invoked \o o.invoked)
             ELSE canAllFrom(list, i + 1, context, invoked \o o.invoked)

\* canAll whose loop skips the first entry.
canAll_FromSecond(list, context) == canAllFrom(list, 2, context, <<>>)

canAll(list, context) == canAllFrom(list, 1, context, <<>>)

\* The denial of canAny as the bare joined reasons.
noneOfThePermissionsPassed_BareJoin(failedReasons) ==
    Denied(join(failedReasons, ", "))

noneOfThePermissionsPassed(failedReasons) ==
    Denied("None of the permissions passed: " \o join(failedReasons, ", "))

\* The for loop of canAny from index i on.
RECURSIVE canAnyFrom(_, _, _, _, _)
canAnyFrom(list, i, context, failedReasons, invoked) ==
    IF i > Len(list)
    THEN Outcome(noneOfThePermissionsPassed(failedReasons), invoked)
    ELSE LET o == can(list[i], context)
         IN  IF o.result.allowed
             THEN Outcome(Allowed, invoked \o o.invoked)
             ELSE canAnyFrom(list, i + 1, context,
                             IF "reason" \in DOMAIN o.result /\ o.result.reason # ""
                             THEN Append(failedReasons, o.result.reason)
                             ELSE failedReasons,
                             invoked \o o.invoked)

canAny(list, context) == canAnyFrom(list, 1, context, <<>>, <<>>)

-----------------------------------------------------------------------------
(* Helpers of the role queries *)

isValidRole(role) == role \in roles

\* getRolePermissions without the validity test.
getRolePermissions_NoValidation(role) ==
    IF role \in DOMAIN rolePermissions
    THEN Return(rolePermissions[role])
    ELSE Return({})

getRolePermissions(role) ==
    IF ~isValidRole(role)
    THEN Throw("Error: Role '" \o role \o "' is not valid.")
    ELSE IF role \in DOMAIN rolePermissions
         THEN Return(rolePermissions[role])
         ELSE Return({})

\* hasRolePermission that returns true at once when the principal holds "*".
hasRolePermission_PrincipalWildcardFirst(role, permission) ==
    IF hasWildcardRole(permissions)
    THEN Return(TRUE)
    ELSE LET rolePerms == getRolePermissions(role)
         IN  IF rolePerms.kind = "throw" THEN rolePerms
             ELSE IF hasWildcardRole(rolePerms.value) THEN Return(TRUE)
             ELSE Return(permission \in rolePerms.value)

\* Returns Return(boolean), or the Throw of getRolePermissions.
hasRolePermission(role, permission) ==
    LET rolePerms == getRolePermissions(role)
    IN  IF rolePerms.kind = "throw" THEN rolePerms
        ELSE IF hasWildcardRole(rolePerms.value) THEN Return(TRUE)
        ELSE Return(permission \in rolePerms.value)

-----------------------------------------------------------------------------
(* The state after construction *)

\* The constructor on any configuration of roles and role permissions; it
\* copies config.roles and config.rolePermissions as they are.
InitRoles ==
    /\ \E list \in Lists : permissions = Range(list)
    /\ rules = [p \in {} |-> "isVerified"]
    /\ user = Undefined
    /\ roles \in SUBSET RoleNames
    /\ rolePermissions \in RoleMaps
    /\ ret = [op |-> "constructor"]
    /\ revoked = {}

Init ==
    /\ \E list \in Lists : permissions = Range(list)
    /\ rules = [p \in {} |-> "isVerified"]
    /\ user \in {Undefined} \cup {Some(u) : u \in Users}
    /\ roles = ConfigRoles
    /\ rolePermissions = ConfigRolePermissions
    /\ ret = [op |-> "constructor"]
    /\ revoked = {}

-----------------------------------------------------------------------------
(* Mutators *)

SetUser(u) ==
    /\ user' = Some(u)
    /\ ret' = [op |-> "setUser"]
    /\ UNCHANGED <<permissions, rules, roles, rolePermissions, revoked>>

SetPermissions(list) ==
    /\ permissions' = Range(list)
    /\ ret' = [op |-> "setPermissions"]
    /\ UNCHANGED <<rules, user, roles, rolePermissions, revoked>>

AddPermissions(list) ==
    /\ permissions' = permissions \cup Range(list)
    /\ ret' = [op |-> "addPermissions"]
    /\ UNCHANGED <<rules, user, roles, rolePermissions, revoked>>

\* removePermissions that forgets this.rules.delete(permission).
RemovePermissions_KeepsRules(list) ==
    /\ permissions' = permissions \ Range(list)
    /\ ret' = [op |-> "removePermissions"]
    /\ revoked' = revoked \cup Range(list)
    /\ UNCHANGED <<rules, user, roles, rolePermissions>>

RemovePermissions(list) ==
    /\ permissions' = permissions \ Range(list)
    /\ rules' = [p \in DOMAIN rules \ Range(list) |-> rules[p]]
    /\ ret' = [op |-> "removePermissions"]
    /\ revoked' = revoked \cup Range(list)
    /\ UNCHANGED <<user, roles, rolePermissions>>

doesNotExist(permission) ==
    "Cannot add condition. Permission '" \o permission \o "' does not exist."

\* setCondition guarded by hasPermission: a held "*" makes every key pass.
SetCondition_WildcardCounts(permission, condition) ==
    IF ~hasPermission(permission)
    THEN /\ ret' = [op |-> "setCondition", permission |-> permission,
                    condition |-> condition,
                    threw |-> Some(doesNotExist(permission))]
         /\ UNCHANGED <<store, revoked>>
    ELSE /\ rules' = [p \in DOMAIN rules \cup {permission} |->
                         IF p = permission THEN condition ELSE rules[p]]
         /\ ret' = [op |-> "setCondition", permission |-> permission,
                    condition |-> condition, threw |-> Undefined]
         /\ revoked' = revoked \ {permission}
         /\ UNCHANGED <<permissions, user, roles, rolePermissions>>

SetCondition(permission, condition) ==
    IF permission \notin permissions
    THEN /\ ret' = [op |-> "setCondition", permission |-> permission,
                    condition |-> condition,
                    threw |-> Some(doesNotExist(permission))]
         /\ UNCHANGED <<store, revoked>>
    ELSE /\ rules' = [p \in DOMAIN rules \cup {permission} |->
                         IF p = permission THEN condition ELSE rules[p]]
         /\ ret' = [op |-> "setCondition", permission |-> permission,
                    condition |-> condition, threw |-> Undefined]
         /\ revoked' = revoked \ {permission}
         /\ UNCHANGED <<permissions, user, roles, rolePermissions>>

ClearConditions(permission) ==
    /\ rules' = [p \in DOMAIN rules \ {permission} |-> rules[p]]
    /\ ret' = [op |-> "clearConditions"]
    /\ UNCHANGED <<permissions, user, roles, rolePermissions, revoked>>

SetRoles(names) ==
    /\ roles' = names
    /\ ret' = [op |-> "setRoles"]
    /\ UNCHANGED <<permissions, rules, user, rolePermissions, revoked>>

AddRoles(names) ==
    /\ roles' = roles \cup names
    /\ ret' = [op |-> "addRoles"]
    /\ UNCHANGED <<permissions, rules, user, rolePermissions, revoked>>

RemoveRoles(names) ==
    /\ roles' = roles \ names
    /\ rolePermissions' =
           [r \in DOMAIN rolePermissions \ names |-> rolePermissions[r]]
    /\ ret' = [op |-> "removeRoles"]
    /\ UNCHANGED <<permissions, rules, user, revoked>>

SetRolePermissions(map) ==
    /\ rolePermissions' = map
    /\ ret' = [op |-> "setRolePermissions"]
    /\ UNCHANGED <<permissions, rules, user, roles, revoked>>

-----------------------------------------------------------------------------
(* Queries *)

HasRolePermission(role, permission) ==
    /\ ret' = [op |-> "hasRolePermission", role |-> role,
               permission |-> permission,
               outcome |-> hasRolePermission(role, permission)]
    /\ UNCHANGED <<store, revoked>>

GetCondition(permission) ==
    /\ ret' = [op |-> "getCondition", permission |-> permission,
               value |-> IF permission \in DOMAIN rules
                         THEN Some(rules[permission]) ELSE Undefined]
    /\ UNCHANGED <<store, revoked>>

HasPermission(permission) ==
    /\ ret' = [op |-> "hasPermission", permission |-> permission,
               value |-> hasPermission(permission)]
    /\ UNCHANGED <<store, revoked>>

Can(permission, context) ==
    /\ LET o == can(permission, context)
       IN  ret' = [op |-> "can", permission |-> permission, context |-> context,
                   result |-> o.result, invoked |-> o.invoked]
    /\ UNCHANGED <<store, revoked>>

CanAll(list, context) ==
    /\ LET o == canAll(list, context)
       IN  ret' = [op |-> "canAll", list |-> list, context |-> context,
                   result |-> o.result, invoked |-> o.invoked]
    /\ UNCHANGED <<store, revoked>>

CanAny(list, context) ==
    /\ LET o == canAny(list, context)
       IN  ret' = [op |-> "canAny", list |-> list, context |-> context,
                   result |-> o.result, invoked |-> o.invoked]
    /\ UNCHANGED <<store, revoked>>

-----------------------------------------------------------------------------

Next ==
    \/ \E u \in Users : SetUser(u)
    \/ \E list \in Lists : SetPermissions(list)
    \/ \E list \in Lists : AddPermissions(list)
    \/ \E list \in Lists : RemovePermissions(list)
    \/ \E p \in Perms, c \in Conditions : SetCondition(p, c)
    \/ \E p \in Perms : ClearConditions(p)
    \/ \E p \in Perms : GetCondition(p)
    \/ \E p \in Perms : HasPermission(p)
    \/ \E p \in Perms, context \in Overrides : Can(p, context)
    \/ \E list \in Lists, context \in Overrides : CanAll(list, context)
    \/ \E list \in Lists, context \in Overrides : CanAny(list, context)

Spec == Init /\ [][Next]_vars

\* The role stores: the role mutators, the grants of the principal and the
\* role query, from any configuration.
NextRoles ==
    \/ \E names \in SUBSET RoleNames : SetRoles(names)
    \/ \E names \in SUBSET RoleNames : AddRoles(names)
    \/ \E names \in SUBSET RoleNames : RemoveRoles(names)
    \/ \E map \in RoleMaps : SetRolePermissions(map)
    \/ \E list \in Lists : SetPermissions(list)
    \/ \E list \in Lists : AddPermissions(list)
    \/ \E list \in Lists : RemovePermissions(list)
    \/ \E r \in RoleNames, p \in Perms : HasRolePermission(r, p)

SpecRoles == InitRoles /\ [][NextRoles]_vars

-----------------------------------------------------------------------------
(* Properties *)

QueryOps == {"can", "canAll", "canAny"}

\* The merged context stated on its own: every key of either object, with
\* the override's value wherever the override has the key.
Merged(u, override) ==
    LET a == IF u.defined THEN u.value ELSE EmptyCtx
        b == IF override.defined THEN override.value ELSE EmptyCtx
    IN  [k \in DOMAIN a \cup DOMAIN b |-> IF k \in DOMAIN b THEN b[k] ELSE a[k]]

\* C1: in every reachable state, hasPermission(x) returns true if and only if
\* x is a member of the permission set or "*" is a member of it.
C1_HasPermissionIffMemberOrWildcard ==
    ret.op = "hasPermission" =>
        (ret.value <=> (ret.permission \in permissions \/ "*" \in permissions))

\* hasPermission has returned true for a permission that only "*" covers.
C1_Witness ==
    /\ ret.op = "hasPermission"
    /\ ret.permission \notin permissions
    /\ ret.value = TRUE

\* C2: when neither p nor "*" is in the permission set, can(p, ctx) returns
\* allowed=false with reason "Permission '<p>' not granted" and invokes no
\* condition, whatever conditions are registered and whatever the context.
C2_NotGrantedIsDenied ==
    (ret.op = "can" /\ ret.permission \notin permissions /\ "*" \notin permissions)
        => /\ ret.result = Denied("Permission '" \o ret.permission \o "' not granted")
           /\ ret.invoked = <<>>

\* can has denied a permission that is not granted while a condition is still
\* registered under it and a context override was passed.
C2_Witness ==
    /\ ret.op = "can"
    /\ ret.permission \notin permissions
    /\ "*" \notin permissions
    /\ ret.permission \in DOMAIN rules
    /\ ret.context.defined
    /\ ~ret.result.allowed

\* C3: with "*" granted and a condition C registered under "*", for every x
\* that is not a literal member, can(x, override) is allowed if and only if C
\* returns true on the stored user context overlaid by the override (override
\* values winning); when C returns false the reason is "Wildcard condition
\* failed for permission '<x>'".
C3_WildcardConditionDecides ==
    (/\ ret.op = "can"
     /\ "*" \in permissions
     /\ "*" \in DOMAIN rules
     /\ ret.permission \notin permissions)
        => LET merged == Merged(user, ret.context)
               r == Call(rules["*"], merged)
           IN  /\ ret.result.allowed <=> (r.kind = "return" /\ r.value)
               /\ (r.kind = "return" /\ ~r.value) =>
                      ret.result = Denied("Wildcard condition failed for permission '"
                                          \o ret.permission \o "'")
               /\ ret.invoked = <<Invocation(ret.permission, "*", merged)>>

\* The wildcard condition has allowed a permission because the override's
\* value replaced the stored user's value under a shared key.
C3_Witness ==
    /\ ret.op = "can"
    /\ "*" \in permissions
    /\ "*" \in DOMAIN rules
    /\ ret.permission \notin permissions
    /\ rules["*"] = "isVerified"
    /\ user.defined /\ user.value["verified"] = FALSE
    /\ ret.context.defined /\ ret.context.value["verified"] = TRUE
    /\ ret.result.allowed

\* C4: with "*" granted and no condition registered under "*", can(x, ctx)
\* returns allowed=true for every x the wildcard covers (x is no literal
\* member, or x is "*" itself), for every user context and every override,
\* and invokes no condition.
C4_UnconditionalWildcard ==
    (/\ ret.op = "can"
     /\ "*" \in permissions
     /\ "*" \notin DOMAIN rules
     /\ (ret.permission \notin permissions \/ ret.permission = "*"))
        => /\ ret.result = Allowed
           /\ ret.invoked = <<>>

\* The unconditional wildcard has allowed a permission that is no literal
\* member although a condition is still registered under that permission.
C4_Witness ==
    /\ ret.op = "can"
    /\ "*" \in permissions
    /\ "*" \notin DOMAIN rules
    /\ ret.permission \notin permissions
    /\ ret.permission \in DOMAIN rules
    /\ user.defined
    /\ ret.result = Allowed

StartsWith(s, prefix) ==
    Len(s) >= Len(prefix) /\ SubSeq(s, 1, Len(prefix)) = prefix

Contains(s, part) ==
    \E i \in 1..(Len(s) - Len(part) + 1) : SubSeq(s, i, i + Len(part) - 1) = part

\* The invocation ended in a throw.
Threw(call) == Call(rules[call.key], call.context).kind = "throw"

\* The reason prefix of a contained throw: the explicit path runs the
\* condition under the permission's own key, the wildcard path the one under
\* "*" for another permission.
ErrorPrefix(call) ==
    IF call.key = call.permission
    THEN "Error evaluating condition for permission '" \o call.permission \o "': "
    ELSE "Error evaluating wildcard condition: "

\* C5 as stated: whenever a condition throws during can, canAll or canAny,
\* the call returns a CheckResult with allowed=false whose reason starts with
\* the error prefix of the path.
C5_Original_ThrowIsDenialWithErrorPrefix ==
    ret.op \in QueryOps =>
        \A i \in DOMAIN ret.invoked :
            Threw(ret.invoked[i]) =>
                /\ "allowed" \in DOMAIN ret.result
                /\ ~ret.result.allowed
                /\ StartsWith(ret.result.reason, ErrorPrefix(ret.invoked[i]))

C5_ThrowContainedInResult ==
    ret.op \in QueryOps =>
        \A i \in DOMAIN ret.invoked :
            Threw(ret.invoked[i]) =>
                /\ "allowed" \in DOMAIN ret.result
                /\ ret.op \in {"can", "canAll"} =>
                      /\ ~ret.result.allowed
                      /\ StartsWith(ret.result.reason, ErrorPrefix(ret.invoked[i]))
                /\ ret.op = "canAny" =>
                      \/ ret.result = Allowed
                      \/ /\ ~ret.result.allowed
                         /\ StartsWith(ret.result.reason,
                                       "None of the permissions passed: ")
                         /\ Contains(ret.result.reason, ErrorPrefix(ret.invoked[i]))

\* C5, amended: a condition that throws during can, canAll or canAny is never
\* propagated as a fault and the call leaves the permission set, the
\* condition map, the role stores and the user context unchanged.  can and
\* canAll return allowed=false with a reason that starts with the error
\* prefix of the path.  canAny goes on to the next permission: it returns
\* allowed=true when a later permission passes, and otherwise allowed=false
\* with a reason that starts with "None of the permissions passed: " and
\* holds the error reason among the joined reasons.
C5_ThrowContained ==
    /\ []C5_ThrowContainedInResult
    /\ [][(ret'.op \in QueryOps /\ \E i \in DOMAIN ret'.invoked : Threw(ret'.invoked[i]))
              => store' = store]_vars

\* canAny has contained a throw of the first permission's condition and
\* allowed the call on the second permission.
C5_Witness ==
    /\ ret.op = "canAny"
    /\ Len(ret.list) = 2
    /\ Len(ret.invoked) >= 1
    /\ Threw(ret.invoked[1])
    /\ ret.invoked[1].permission = ret.list[1]
    /\ ret.result = Allowed

\* C6: the CheckResult of can, canAll and canAny has a reason if and only if
\* allowed is false, and the reason of a denial is never empty.
C6_ReasonIffDenied ==
    ret.op \in QueryOps =>
        /\ ("reason" \in DOMAIN ret.result) <=> ~ret.result.allowed
        /\ ~ret.result.allowed => ret.result.reason # ""

\* canAny has denied the empty list.
C6_Witness ==
    /\ ret.op = "canAny"
    /\ ret.list = <<>>
    /\ ~ret.result.allowed

\* C7: canAll(list, ctx) returns the result of can(p, ctx) for the first p in
\* list order that can denies, unchanged, and {allowed: true} when the list
\* is empty or can passes for every entry.
C7_CanAllFirstFailure ==
    ret.op = "canAll" =>
        LET failing == {i \in 1..Len(ret.list) :
                           ~can(ret.list[i], ret.context).result.allowed}
        IN  IF failing = {}
            THEN ret.result = Allowed
            ELSE LET first == CHOOSE i \in failing : \A j \in failing : i <= j
                 IN  /\ ret.result = can(ret.list[first], ret.context).result
                     /\ ~ret.result.allowed

\* canAll has returned the denial of the first of two permissions that are
\* denied for different reasons.
C7_Witness ==
    /\ ret.op = "canAll"
    /\ Len(ret.list) = 2
    /\ ~can(ret.list[1], ret.context).result.allowed
    /\ ~can(ret.list[2], ret.context).result.allowed
    /\ can(ret.list[1], ret.context).result # can(ret.list[2], ret.context).result
    /\ ret.result = can(ret.list[1], ret.context).result

\* R1, R2, ..., Rn as "R1, R2, ..., Rn".
RECURSIVE CommaSeparated(_)
CommaSeparated(reasons) ==
    IF Len(reasons) = 0 THEN ""
    ELSE IF Len(reasons) = 1 THEN reasons[1]
    ELSE CommaSeparated(SubSeq(reasons, 1, Len(reasons) - 1))
             \o ", " \o reasons[Len(reasons)]

\* The denial reasons can gives for the entries of the list, in list order.
DenialReasons(list, context) ==
    [i \in 1..Len(list) |-> can(list[i], context).result.reason]

\* The conditions can invokes for the first k entries of the list.
RECURSIVE InvokedUpTo(_, _, _)
InvokedUpTo(list, context, k) ==
    IF k = 0 THEN <<>>
    ELSE InvokedUpTo(list, context, k - 1) \o can(list[k], context).invoked

Passing(list, context) ==
    {i \in 1..Len(list) : can(list[i], context).result.allowed}

\* The entries canAny evaluates: up to the first passing one, or all.
Evaluated(list, context) ==
    IF Passing(list, context) = {} THEN Len(list)
    ELSE CHOOSE i \in Passing(list, context) :
             \A j \in Passing(list, context) : i <= j

\* C8 as stated: if no permission passes, canAny returns allowed=false with
\* the individual denial reasons joined by ", " in list order as its reason.
C8_Original_ReasonIsJoinedReasons ==
    (ret.op = "canAny" /\ Passing(ret.list, ret.context) = {}) =>
        ret.result = Denied(CommaSeparated(DenialReasons(ret.list, ret.context)))

\* C8, amended: canAny returns {allowed: true} at the first permission in
\* list order that passes can, evaluating nothing after it; if none passes
\* it returns allowed=false with the reason "None of the permissions
\* passed: " followed by the individual denial reasons joined by ", " in
\* list order.
C8_CanAnyPrefixedJoinedReasons ==
    ret.op = "canAny" =>
        /\ IF Passing(ret.list, ret.context) # {}
           THEN ret.result = Allowed
           ELSE ret.result =
                    Denied("None of the permissions passed: "
                           \o CommaSeparated(DenialReasons(ret.list, ret.context)))
        /\ ret.invoked =
               InvokedUpTo(ret.list, ret.context, Evaluated(ret.list, ret.context))

\* canAny has denied two permissions that can denies for different reasons.
C8_Witness ==
    /\ ret.op = "canAny"
    /\ Len(ret.list) = 2
    /\ Passing(ret.list, ret.context) = {}
    /\ can(ret.list[1], ret.context).result # can(ret.list[2], ret.context).result
    /\ ~ret.result.allowed

\* C9: after removePermissions([p]) no condition is registered under p, and
\* as long as no setCondition(p, ...) follows this stays so, also across a
\* later re-grant of p: getCondition(p) is undefined and can(p) on the
\* re-granted p is allowed without evaluating any condition.
C9_RevokeDropsCondition ==
    /\ \A p \in revoked : p \notin DOMAIN rules
    /\ (ret.op = "getCondition" /\ ret.permission \in revoked)
           => ret.value = Undefined
    /\ (ret.op = "can" /\ ret.permission \in revoked /\ ret.permission \in permissions)
           => (ret.result = Allowed /\ ret.invoked = <<>>)

\* can has allowed a revoked and re-granted permission on a context that
\* neither condition function returns true on.
C9_Witness ==
    /\ ret.op = "can"
    /\ ret.permission \in revoked
    /\ ret.permission \in permissions
    /\ ret.permission # "*"
    /\ \A c \in Conditions :
           LET r == Call(c, Merged(user, ret.context))
           IN  r.kind = "throw" \/ ~r.value
    /\ ret.result = Allowed

\* C10: setCondition(p, c) throws "Cannot add condition. Permission '<p>'
\* does not exist." whenever p is not a literal member of the permission set,
\* also when a granted "*" covers p, and then leaves the condition map as it
\* was; when p is a literal member it succeeds and the condition map is the
\* old one with c as the one condition under p.
C10_SetConditionNeedsLiteralMember ==
    [][ret'.op = "setCondition" =>
          IF ret'.permission \notin permissions
          THEN /\ ret'.threw = Some("Cannot add condition. Permission '"
                                    \o ret'.permission \o "' does not exist.")
               /\ rules' = rules
          ELSE /\ ret'.threw = Undefined
               /\ rules' = (ret'.permission :> ret'.condition) @@ rules]_vars

\* setCondition has thrown for a permission that only the granted "*"
\* covers, with another condition registered.
C10_Witness ==
    /\ ret.op = "setCondition"
    /\ ret.threw.defined
    /\ "*" \in permissions
    /\ ret.permission \notin permissions
    /\ DOMAIN rules # {}

\* What the role stores alone say about hasRolePermission(role, permission):
\* the invalid-role error for a role that is not in the role set, and
\* otherwise whether the permission or "*" is in the role's permission set,
\* a role with no map entry having the empty set.
ByRoleStores(role, permission) ==
    IF role \notin roles
    THEN Throw("Error: Role '" \o role \o "' is not valid.")
    ELSE LET granted == IF role \in DOMAIN rolePermissions
                        THEN rolePermissions[role] ELSE {}
         IN  Return(permission \in granted \/ "*" \in granted)

\* C11 as stated: whenever the principal's permission set contains "*",
\* hasRolePermission(role, perm) returns true for every role and permission,
\* also for a role that is not in the role set, and throws no error.
C11_Original_PrincipalWildcardGrantsRoles ==
    (ret.op = "hasRolePermission" /\ "*" \in permissions)
        => ret.outcome = Return(TRUE)

\* C11, amended: whenever the principal's permission set contains "*",
\* hasRolePermission(role, perm) is still decided by the role stores alone:
\* it throws the invalid-role error for a role that is not in the role set,
\* and for a role in the role set it returns true if and only if perm or "*"
\* is in that role's permission set.
C11_PrincipalWildcardIsIgnored ==
    (ret.op = "hasRolePermission" /\ "*" \in permissions)
        => ret.outcome = ByRoleStores(ret.role, ret.permission)

\* hasRolePermission has thrown for an unregistered role while the principal
\* holds "*".
C11_Witness ==
    /\ ret.op = "hasRolePermission"
    /\ "*" \in permissions
    /\ ret.role \notin roles
    /\ ret.outcome.kind = "throw"

\* C12: when the principal does not hold "*", hasRolePermission(role, perm)
\* throws the invalid-role error for every role that is not in the role set;
\* for a role in the role set it returns true if and only if perm or "*" is
\* in that role's permission set, a role with no map entry having the empty
\* set.
C12_RoleStoresDecide ==
    (ret.op = "hasRolePermission" /\ "*" \notin permissions)
        => /\ ret.outcome = ByRoleStores(ret.role, ret.permission)
           /\ ret.role \notin roles => ret.outcome.kind = "throw"
           /\ ret.role \in roles => ret.outcome.kind = "return"

\* hasRolePermission has thrown for an unregistered role that still has a
\* map entry holding "*", the principal not holding "*".
C12_Witness ==
    /\ ret.op = "hasRolePermission"
    /\ "*" \notin permissions
    /\ ret.role \notin roles
    /\ ret.role \in DOMAIN rolePermissions
    /\ "*" \in rolePermissions[ret.role]
    /\ ret.outcome.kind = "throw"

\* C13: every key of the role-to-permission map is a member of the role
\* set in every state reachable from construction by setRoles, addRoles,
\* removeRoles and setRolePermissions; stated of the steps: no operation takes
\* a state where every key is a registered role to one where some key is not.
C13_Claim_RoleMapKeysStayRegistered ==
    [][(DOMAIN rolePermissions \subseteq roles)
           => (DOMAIN rolePermissions' \subseteq roles')]_vars

\* The entries canAll evaluates: up to the first one can denies, or all.
EvaluatedByCanAll(list, context) ==
    LET failing == {i \in 1..Len(list) : ~can(list[i], context).result.allowed}
    IN  IF failing = {} THEN Len(list)
        ELSE CHOOSE i \in failing : \A j \in failing : i <= j

\* C14: during canAll(list, ctx), once can has denied an entry, no later
\* entry is evaluated: the conditions invoked are those of the entries up to
\* the first denied one, and no condition is invoked for a permission
\* positioned after it.
C14_CanAllStopsAtFirstDenial ==
    ret.op = "canAll" =>
        LET k == EvaluatedByCanAll(ret.list, ret.context)
        IN  /\ ret.invoked = InvokedUpTo(ret.list, ret.context, k)
            /\ \A n \in DOMAIN ret.invoked :
                   \A j \in (k + 1)..Len(ret.list) :
                       ret.invoked[n].permission # ret.list[j]

\* canAll has returned the denial of its first entry and left alone the
\* condition that can would invoke for its second entry.
C14_Witness ==
    /\ ret.op = "canAll"
    /\ Len(ret.list) = 2
    /\ ~can(ret.list[1], ret.context).result.allowed
    /\ can(ret.list[2], ret.context).invoked # <<>>
    /\ \A n \in DOMAIN ret.invoked : ret.invoked[n].permission = ret.list[1]
    /\ ~ret.result.allowed

\* C15: in every state reachable from construction by setPermissions,
\* addPermissions, removePermissions, setCondition and clearConditions, every
\* key of the condition map is a literal member of the permission set.
C15_Claim_ConditionKeysAreGranted ==
    DOMAIN rules \subseteq permissions

\* C16: when the permission set holds both "*" and a literal x other than
\* "*", can(x, ctx) is decided by the condition registered under x alone: it
\* is allowed with no condition under x, otherwise that condition is invoked
\* once on the merged context and the call is allowed if and only if it
\* returns true; the condition under "*" is never invoked for x.
C16_LiteralGrantIgnoresWildcardCondition ==
    (/\ ret.op = "can"
     /\ "*" \in permissions
     /\ ret.permission \in permissions
     /\ ret.permission # "*")
        => IF ret.permission \notin DOMAIN rules
           THEN ret.result = Allowed /\ ret.invoked = <<>>
           ELSE LET merged == Merged(user, ret.context)
                    r == Call(rules[ret.permission], merged)
                IN  /\ ret.invoked =
                           <<Invocation(ret.permission, ret.permission, merged)>>
                    /\ ret.result.allowed <=> (r.kind = "return" /\ r.value)

\* can has denied a literal x on x's own condition although "*" is held and
\* the condition under "*" returns true on the same context.
C16_Witness ==
    /\ ret.op = "can"
    /\ "*" \in permissions
    /\ ret.permission \in permissions
    /\ ret.permission # "*"
    /\ ret.permission \in DOMAIN rules
    /\ "*" \in DOMAIN rules
    /\ LET r == Call(rules["*"], Merged(user, ret.context))
       IN  r.kind = "return" /\ r.value
    /\ ~ret.result.allowed

====
